---- MODULE Spec2Model ----
(***************************************************************************)
(* A model of pysh: the process-pipeline prototype (demo-stream.py: launch *)
(* loop and selector-driven completion monitor) and the pipeline           *)
(* expression DSL (pysh/dsl.py, pysh/dsl/pipeline.py: Command builder,     *)
(* operators, invoke/wait).                                                *)
(***************************************************************************)
EXTENDS Integers, Sequences, FiniteSets, TLC

(***************************************************************************)
(* Bounds of the model.                                                    *)
(***************************************************************************)
MaxStages == 3
\* objects a run builds (the initial command included)
MaxNodes == 3
\* Result objects a run creates
MaxResults == 1
\* argument groups of a Command
MaxGroups == 2
\* with-blocks of one Env
MaxScopes == 2

(***************************************************************************)
(* Program constants.                                                      *)
(***************************************************************************)
\* stdin = sys.stdin.fileno()
ParentStdin == 0
\* the descriptor of the epoll object created by selectors.DefaultSelector()
SelectorFd == 3
\* catch() without statuses: list(range(256))
AllStatuses == 256

VARIABLES
    \* ---- demo-stream.py ----
    n,          \* len(pipeline)
    missing,    \* the stage whose executable cannot be started (0: none)
    pc,         \* position of the script
    idx,        \* position of the launch loop in pipeline (1-based)
    stdin,      \* the script's variable stdin
    jobs,       \* jobs: pid -> (p, stdin, stdout); a pid is the stage's index
    registered, \* stages whose p.stdout is registered with the selector
    openfds,    \* descriptors open in the parent
    phase,      \* per stage process: none / running / closed / terminated
    rc,         \* per stage process: the raw return code once terminated
    cat,        \* the forwarding cat process: none / running / terminated
    events,     \* the events of the current select() still to iterate
    cur,        \* the stage of the event being handled
    ret,        \* ret = p.poll()
    cnt,        \* cnt
    printed,    \* the status lines printed so far
    \* ---- pysh/dsl.py, pysh/dsl/pipeline.py ----
    impl,       \* the module in use: "dsl" (pysh/dsl.py) or "pkg" (pysh/dsl/)
    heap,       \* the Pipeline objects built so far, by identity
    lists,      \* the list objects held in Command._args, by identity
    nrlists,    \* the list objects held in Command._no_raise, by identity
    invOf,      \* per object: the operand of the ~ that returned it, or 0
    last,       \* the last operation: receiver, operand, result or error
    results,    \* the Result objects returned by invoke()
    \* ---- ExternalSpec of pysh/dsl/command.py and pysh/command.py ----
    espec,      \* the ExternalSpec: its settings
    eargs,      \* builder.args: the argument groups of a Command
    encoded,    \* the argument list computed, and by which module
    \* ---- pysh/env.py ----
    environ,    \* os.environ: name -> value, or None when not set
    env,        \* the Env object: vars and saved
    inBlock,    \* a with-block of env is entered and not yet left
    atEnter,    \* os.environ when the with-block was entered
    touched,    \* the names set through env since the block was entered
    scopes,     \* the with-blocks of env entered so far
    envlast     \* the last operation on env or os.environ

monVars == <<n, missing, pc, idx, stdin, jobs, registered, openfds, phase, rc,
             cat, events, cur, ret, cnt, printed>>

dslVars == <<impl, heap, lists, nrlists, invOf, last, results>>

encVars == <<espec, eargs, encoded>>

envVars == <<environ, env, inBlock, atEnter, touched, scopes, envlast>>

libVars == <<encVars, envVars>>

vars == <<monVars, dslVars, libVars>>

Stages == 1..MaxStages

\* raw return codes of Popen.poll(): -N is "killed by signal N"
RetCodes == {-9, 0, 1}

\* one descriptor that every stage would get as its stdout
StdoutFdShared(i) == SelectorFd + 1

\* p.stdout.fileno() of the i-th spawned stage: the epoll object holds
\* descriptor 3 and every Popen leaves exactly its read end open.
StdoutFd(i) == SelectorFd + i

NonePoll == [none |-> TRUE, code |-> 0]

\* a poll that takes every process for terminated
PollDone(i) == [none |-> FALSE, code |-> rc[i]]

\* p.poll(): None while the process has not terminated, else its return code
Poll(i) ==
    IF phase[i] = "terminated" THEN [none |-> FALSE, code |-> rc[i]]
    ELSE NonePoll

\* a report that prints every return code as an exit status
ReportBroken(pid, r) == [pid |-> pid, kind |-> "Exit", n |-> r]

\* The status line printed for a terminated process.
Report(pid, r) ==
    IF r < 0 THEN [pid |-> pid, kind |-> "Signal", n |-> -r]
    ELSE [pid |-> pid, kind |-> "Exit", n |-> r]

\* The keys selector.select() returns: a registered read end whose writer
\* (the stage) has closed its stdout, as long as the parent has not closed
\* the descriptor (closing it removes it from the epoll set).
Ready ==
    {i \in registered : StdoutFd(i) \in openfds /\ phase[i] # "running"}

MonInit ==
    /\ n \in 1..MaxStages
    /\ missing \in 0..n
    /\ pc = "launch"
    /\ idx = 1
    /\ stdin = ParentStdin
    /\ jobs = [i \in Stages |-> [stdin |-> -1, stdout |-> -1]]
    /\ registered = {}
    /\ openfds = {0, 1, 2, SelectorFd}
    /\ phase = [i \in Stages |-> "none"]
    /\ rc = [i \in Stages |-> 0]
    /\ cat = "none"
    /\ events = {}
    /\ cur = 0
    /\ ret = NonePoll
    /\ cnt = 0
    /\ printed = <<>>

\* One iteration of "for cmd in pipeline" whose Popen succeeds.
Launch ==
    /\ pc = "launch"
    /\ idx <= n
    /\ idx # missing
    /\ phase' = [phase EXCEPT ![idx] = "running"]
    /\ openfds' = openfds \cup {StdoutFd(idx)}
    /\ registered' = registered \cup {idx}
    /\ jobs' = [jobs EXCEPT ![idx] = [stdin |-> stdin, stdout |-> StdoutFd(idx)]]
    /\ stdin' = StdoutFd(idx)
    /\ idx' = idx + 1
    /\ UNCHANGED <<libVars, dslVars, n, missing, pc, rc, cat, events, cur, ret, cnt, printed>>

\* subprocess.Popen raises (FileNotFoundError, PermissionError): nothing
\* in the script catches it, the interpreter prints the traceback and exits.
LaunchFails ==
    /\ pc = "launch"
    /\ idx <= n
    /\ idx = missing
    /\ pc' = "aborted"
    /\ UNCHANGED <<libVars, dslVars, n, missing, idx, stdin, jobs, registered, openfds, phase,
                   rc, cat, events, cur, ret, cnt, printed>>

\* a script that goes on to the monitor from any point of the launch loop
LaunchCatEarly ==
    /\ pc = "launch"
    /\ idx <= n + 1
    /\ cat' = "running"
    /\ cnt' = Cardinality({i \in Stages : phase[i] # "none"})
    /\ pc' = "select"
    /\ UNCHANGED <<libVars, dslVars, n, missing, idx, stdin, jobs, registered, openfds, phase,
                   rc, events, cur, ret, printed>>

\* The extra cat process forwarding to stdout, then cnt = len(jobs).
LaunchCat ==
    /\ pc = "launch"
    /\ idx = n + 1
    /\ cat' = "running"
    /\ cnt' = Cardinality({i \in Stages : phase[i] # "none"})
    /\ pc' = "select"
    /\ UNCHANGED <<libVars, dslVars, n, missing, idx, stdin, jobs, registered, openfds, phase,
                   rc, events, cur, ret, printed>>

\* events = selector.select(.1)
Select ==
    /\ pc = "select"
    /\ events' = Ready
    /\ pc' = IF Ready = {} THEN "timeout" ELSE "for"
    /\ UNCHANGED <<libVars, dslVars, n, missing, idx, stdin, jobs, registered, openfds, phase,
                   rc, cat, cur, ret, cnt, printed>>

\* if not events: print('TODO: ...'); continue
Timeout ==
    /\ pc = "timeout"
    /\ pc' = "select"
    /\ UNCHANGED <<libVars, dslVars, n, missing, idx, stdin, jobs, registered, openfds, phase,
                   rc, cat, events, cur, ret, cnt, printed>>

\* for key, mask in events: p, stdin, stdout = key.data; ret = p.poll()
ForNext ==
    /\ pc = "for"
    /\ \E i \in events :
        /\ events' = events \ {i}
        /\ cur' = i
        /\ ret' = Poll(i)
        /\ pc' = IF Poll(i).none THEN "for" ELSE "unregister"
    /\ UNCHANGED <<libVars, dslVars, n, missing, idx, stdin, jobs, registered, openfds, phase,
                   rc, cat, cnt, printed>>

\* a finalization that leaves the descriptor registered
UnregisterSkipped ==
    /\ pc = "unregister"
    /\ pc' = "close_stdin"
    /\ UNCHANGED <<libVars, dslVars, n, missing, idx, stdin, jobs, registered, openfds, phase,
                   rc, cat, events, cur, ret, cnt, printed>>

\* selector.unregister(stdout), a KeyError is ignored
Unregister ==
    /\ pc = "unregister"
    /\ registered' = registered \ {cur}
    /\ pc' = "close_stdin"
    /\ UNCHANGED <<libVars, dslVars, n, missing, idx, stdin, jobs, openfds, phase, rc, cat,
                   events, cur, ret, cnt, printed>>

\* os.close(stdin), an OSError is ignored
CloseStdin ==
    /\ pc = "close_stdin"
    /\ openfds' = openfds \ {jobs[cur].stdin}
    /\ pc' = "close_stdout"
    /\ UNCHANGED <<libVars, dslVars, n, missing, idx, stdin, jobs, registered, phase, rc, cat,
                   events, cur, ret, cnt, printed>>

\* a finalization that leaves the stage's stdout open
CloseStdoutSkipped ==
    /\ pc = "close_stdout"
    /\ pc' = "report"
    /\ UNCHANGED <<libVars, dslVars, n, missing, idx, stdin, jobs, registered, openfds, phase,
                   rc, cat, events, cur, ret, cnt, printed>>

\* os.close(stdout), an OSError is ignored
CloseStdout ==
    /\ pc = "close_stdout"
    /\ openfds' = openfds \ {jobs[cur].stdout}
    /\ pc' = "report"
    /\ UNCHANGED <<libVars, dslVars, n, missing, idx, stdin, jobs, registered, phase, rc, cat,
                   events, cur, ret, cnt, printed>>

\* a report that forgets the decrement
ReportNoDecrement ==
    /\ pc = "report"
    /\ printed' = Append(printed, Report(cur, ret.code))
    /\ pc' = "for"
    /\ UNCHANGED <<libVars, dslVars, n, missing, idx, stdin, jobs, registered, openfds, phase,
                   rc, cat, events, cur, ret, cnt>>

\* print the status line; cnt -= 1
ReportStatus ==
    /\ pc = "report"
    /\ printed' = Append(printed, Report(cur, ret.code))
    /\ cnt' = cnt - 1
    /\ pc' = "for"
    /\ UNCHANGED <<libVars, dslVars, n, missing, idx, stdin, jobs, registered, openfds, phase,
                   rc, cat, events, cur, ret>>

\* the events are exhausted: if cnt <= 0: selector.close(); break
CheckDone ==
    /\ pc = "for"
    /\ events = {}
    /\ IF cnt <= 0
       THEN /\ pc' = "done"
            /\ openfds' = openfds \ {SelectorFd}
            /\ registered' = {}
       ELSE /\ pc' = "sleep"
            /\ UNCHANGED <<openfds, registered>>
    /\ UNCHANGED <<libVars, dslVars, n, missing, idx, stdin, jobs, phase, rc, cat, events, cur,
                   ret, cnt, printed>>

\* time.sleep(.05)
Sleep ==
    /\ pc = "sleep"
    /\ pc' = "select"
    /\ UNCHANGED <<libVars, dslVars, n, missing, idx, stdin, jobs, registered, openfds, phase,
                   rc, cat, events, cur, ret, cnt, printed>>

\* ---- the processes (the environment of the script) ----

\* A stage closes its stdout while it keeps running.
StageClosesStdout ==
    \E i \in 1..n :
        /\ phase[i] = "running"
        /\ phase' = [phase EXCEPT ![i] = "closed"]
        /\ UNCHANGED <<libVars, dslVars, n, missing, pc, idx, stdin, jobs, registered, openfds,
                       rc, cat, events, cur, ret, cnt, printed>>

\* A stage terminates: it exits or a signal kills it.
StageTerminates ==
    \E i \in 1..n, r \in RetCodes :
        /\ phase[i] \in {"running", "closed"}
        /\ phase' = [phase EXCEPT ![i] = "terminated"]
        /\ rc' = [rc EXCEPT ![i] = r]
        /\ UNCHANGED <<libVars, dslVars, n, missing, pc, idx, stdin, jobs, registered, openfds,
                       cat, events, cur, ret, cnt, printed>>

CatTerminates ==
    /\ cat = "running"
    /\ cat' = "terminated"
    /\ UNCHANGED <<libVars, dslVars, n, missing, pc, idx, stdin, jobs, registered, openfds,
                   phase, rc, events, cur, ret, cnt, printed>>

\* The steps of the script itself.
ScriptNext ==
    \/ Launch
    \/ LaunchFails
    \/ LaunchCat
    \/ Select
    \/ Timeout
    \/ ForNext
    \/ Unregister
    \/ CloseStdin
    \/ CloseStdout
    \/ ReportStatus
    \/ CheckDone
    \/ Sleep

MonNext ==
    \/ Launch
    \/ LaunchFails
    \/ LaunchCat
    \/ Select
    \/ Timeout
    \/ ForNext
    \/ Unregister
    \/ CloseStdin
    \/ CloseStdout
    \/ ReportStatus
    \/ CheckDone
    \/ Sleep
    \/ StageClosesStdout
    \/ StageTerminates
    \/ CatTerminates


(***************************************************************************)
(* The pipeline expression DSL: pysh/dsl.py (the module the tests import)  *)
(* and its variant pysh/dsl/pipeline.py.                                   *)
(***************************************************************************)

\* ---- Python values ----

\* an operand of an operator: a Pipeline object of the heap, or a value
\* known by its type (str, PurePath/Path, IOBase file, int, function, list)
NoOperand == [t |-> "none", id |-> 0]
NodeRef(i) == [t |-> "node", id |-> i]
Value(k) == [t |-> k, id |-> 0]
ValueKinds == {"str", "path", "file", "int", "func", "list"}

\* an argument value: its type and its str()
StrVal(chars) == [t |-> "str", s |-> chars]
IntVal(chars) == [t |-> "int", s |-> chars]
TrueVal == [t |-> "bool", s |-> <<"T", "r", "u", "e">>]

\* Arg = namedtuple('Arg', ('positional', 'keywords'))
Arg(positional, keywords) == [positional |-> positional, keywords |-> keywords]

\* the ExternalSpec objects: command and ok_status
Specs == << [command |-> "foo", ok_status |-> {0}],
            [command |-> "bar", ok_status |-> {0, 2}] >>

Range(f) == {f[i] : i \in DOMAIN f}

\* ---- the node classes ----

BlankNode ==
    [kind |-> "none", spec |-> 0, args |-> 0, no_raise |-> 0, lhs |-> 0,
     rhs |-> NoOperand, appending |-> FALSE, expr |-> 0, reckless |-> FALSE]

\* Command.__init__: _spec = spec, _args = [], _no_raise = [0]
\* (a and r are the identities of the two fresh lists)
Command(spec, a, r) ==
    [BlankNode EXCEPT !.kind = "Command", !.spec = spec, !.args = a,
                      !.no_raise = r]

Pipe(lhs, rhs) == [BlankNode EXCEPT !.kind = "Pipe", !.lhs = lhs, !.rhs = rhs]

Piperr(lhs, rhs) ==
    [BlankNode EXCEPT !.kind = "Piperr", !.lhs = lhs, !.rhs = rhs]

Redirect(lhs, rhs, appending) ==
    [BlankNode EXCEPT !.kind = "Redirect", !.lhs = lhs, !.rhs = rhs,
                      !.appending = appending]

Reckless(expr) == [BlankNode EXCEPT !.kind = "Reckless", !.expr = expr]

\* isinstance(other, Pipeline): every object of the heap is a Pipeline
IsPipeline(o) == o.t = "node"

\* isinstance(rhs, Command)
IsCommand(o) == o.t = "node" /\ heap[o.id].kind = "Command"

\* ---- list objects ----

\* the same list object, shared instead of copied
CopyListAliased(store, id) == [store |-> store, id |-> id]

\* list(self._args): a new list object with the same items
CopyList(store, id) ==
    [store |-> Append(store, store[id]), id |-> Len(store) + 1]

\* a list literal or list(iterable): a new list object
NewList(store, items) ==
    [store |-> Append(store, items), id |-> Len(store) + 1]

\* an insertion at the front of the list
ListPrepend(store, id, x) == [store EXCEPT ![id] = <<x>> \o @]

\* lst.append(x), in place
ListAppend(store, id, x) == [store EXCEPT ![id] = Append(@, x)]

\* lst.extend(xs), in place
ListExtend(store, id, xs) == [store EXCEPT ![id] = @ \o xs]

\* Command.__copy__: the clone shares the spec and gets copies of both lists
\* (Pipeline.__copy__ of pysh/dsl/pipeline.py also copies reckless)
CommandCopy(c) ==
    LET a == CopyList(lists, heap[c].args)
        r == CopyList(nrlists, heap[c].no_raise)
    IN  [node |-> [heap[c] EXCEPT !.args = a.id, !.no_raise = r.id],
         lists |-> a.store, nrlists |-> r.store]

\* Pipeline.__copy__ of pysh/dsl/pipeline.py for the classes that do not
\* override it: cls.__new__(cls) and the reckless flag, nothing else
PkgPipelineCopy(x) ==
    [BlankNode EXCEPT !.kind = heap[x].kind, !.reckless = heap[x].reckless]

\* ---- Command.__getitem__: splitting of the key ----

IsSpace(ch) == ch \in {" ", "\t"}

\* re.split(r'(?<!\\)\s', key): cut at every whitespace character that no
\* backslash precedes
RECURSIVE SplitFrom(_, _, _, _)
SplitFrom(key, i, piece, acc) ==
    IF i > Len(key) THEN Append(acc, piece)
    ELSE IF IsSpace(key[i]) /\ (i = 1 \/ key[i - 1] # "\\")
         THEN SplitFrom(key, i + 1, <<>>, Append(acc, piece))
         ELSE SplitFrom(key, i + 1, Append(piece, key[i]), acc)

\* re.sub(r'\\(\s)', r'\1', arg): drop a backslash that escapes whitespace
RECURSIVE Unescape(_, _)
Unescape(arg, i) ==
    IF i > Len(arg) THEN <<>>
    ELSE IF arg[i] = "\\" /\ i < Len(arg) /\ IsSpace(arg[i + 1])
         THEN <<arg[i + 1]>> \o Unescape(arg, i + 2)
         ELSE <<arg[i]>> \o Unescape(arg, i + 1)

\* arg == '' or arg.isspace()
IsBlank(arg) == \A i \in 1..Len(arg) : IsSpace(arg[i])

\* the Arg items __getitem__ appends for a str key
RECURSIVE ArgsOfPieces(_)
ArgsOfPieces(pieces) ==
    IF pieces = <<>> THEN <<>>
    ELSE IF IsBlank(Head(pieces)) THEN ArgsOfPieces(Tail(pieces))
         ELSE <<Arg(<<StrVal(Unescape(Head(pieces), 1))>>, <<>>)>>
              \o ArgsOfPieces(Tail(pieces))

GetItemArgs(key) ==
    IF key.t # "str" THEN <<Arg(<<key>>, <<>>)>>
    ELSE ArgsOfPieces(SplitFrom(key.s, 1, <<>>, <<>>))

\* ---- Command.catch ----

\* list(range(256))
Range256 == [i \in 1..AllStatuses |-> i - 1]

\* the list catch() stores in clone._no_raise
CatchList(statuses) == IF statuses = <<>> THEN Range256 ELSE statuses

\* ---- operators ----

NotImplemented == [ni |-> TRUE, node |-> BlankNode]
Returned(node) == [ni |-> FALSE, node |-> node]

\* a > that takes any right operand as its target
Pipeline__gt__Lax(x, o) ==
    IF o.t = "str" THEN Returned(Redirect(x, Value("path"), FALSE))
    ELSE Returned(Redirect(x, o, FALSE))

\* Pipeline.__gt__ of pysh/dsl.py
Pipeline__gt__(x, o) ==
    IF IsPipeline(o) THEN NotImplemented
    ELSE IF o.t = "str" THEN Returned(Redirect(x, Value("path"), FALSE))
    ELSE IF o.t \in {"path", "file"} THEN Returned(Redirect(x, o, FALSE))
    ELSE NotImplemented

\* Pipeline.__gt__ of pysh/dsl/pipeline.py
PkgPipeline__gt__(x, o) ==
    IF IsPipeline(o) THEN NotImplemented
    ELSE IF o.t \notin {"file", "str", "bytes", "path"} THEN NotImplemented
    ELSE Returned(Redirect(x, o, FALSE))

\* Pipeline.__lt__, the reflection of >: "not possible to redirect to an
\* expression"
Pipeline__lt__(x, o) == NotImplemented

\* Pipeline.__rshift__: assert not isinstance(rhs, Command)
Pipeline__rshift__(x, o) ==
    IF IsCommand(o) THEN [raised |-> TRUE, node |-> BlankNode]
    ELSE [raised |-> FALSE, node |-> Redirect(x, o, TRUE)]

\* a | that takes any right operand
Pipeline__or__Lax(x, o) == Returned(Pipe(x, o))

\* Pipeline.__or__
Pipeline__or__(x, o) ==
    IF ~IsPipeline(o) THEN NotImplemented
    ELSE Returned(Pipe(x, o))

\* Pipeline.__ror__: value | x
Pipeline__ror__(x, lhs) ==
    IF ~IsPipeline(lhs) THEN NotImplemented
    ELSE Returned(Pipe(lhs.id, NodeRef(x)))

\* Pipeline.__xor__ (the operands here have no __rxor__); pysh/dsl.py turns
\* a str into a PurePath, pysh/dsl/pipeline.py keeps it
Pipeline__xor__(x, o) ==
    IF impl = "dsl" /\ o.t = "str" THEN Piperr(x, Value("path"))
    ELSE Piperr(x, o)

\* Pipeline.__invert__ of pysh/dsl.py
Pipeline__invert__(x) == Reckless(x)

\* the toggle of Pipeline.__invert__ of pysh/dsl/pipeline.py
PkgToggle(flag) == ~flag

NoLast ==
    [op |-> "none", recv |-> 0, operand |-> NoOperand, statuses |-> <<>>,
     res |-> 0, err |-> "none"]

\* Result.__init__: status = None
NoneStatus == [set |-> FALSE, v |-> 0]
IntStatus(v) == [set |-> TRUE, v |-> v]

Result(pipeline) ==
    [pipeline |-> pipeline, status |-> NoneStatus, waited |-> FALSE,
     raised |-> FALSE, exits |-> <<>>]


\* ---- inputs ----

\* the keys of cmd[key]: str keys (with plain and escaped whitespace), an
\* int and a slice
Keys ==
    { StrVal(<<"a">>), StrVal(<<"a", " ", "b">>),
      StrVal(<<"a", "\\", " ", "b">>), StrVal(<<" ">>), IntVal(<<"1">>),
      [t |-> "slice", s |-> <<>>] }

\* the arguments of cmd(*args, **kwargs)
CallArgs ==
    { Arg(<<>>, <<>>),
      Arg(<<StrVal(<<"a">>)>>, <<>>),
      Arg(<<IntVal(<<"1">>)>>, <<[name |-> <<"v">>, value |-> TrueVal]>>) }

\* the names of cmd.name
AttrNames == { <<"x">>, <<"_", "p">> }

\* the statuses of cmd.catch(*statuses)
CatchArgs == { <<>>, <<1>>, <<1, 2>> }

\* the exit statuses of a stage of an invoked pipeline
ExitCodes == {0, 1}

Operands ==
    {NodeRef(i) : i \in 1..Len(heap)} \cup {Value(k) : k \in ValueKinds}

\* ---- states ----

MonIdle ==
    /\ n = 1
    /\ missing = 0
    /\ pc = "idle"
    /\ idx = 1
    /\ stdin = ParentStdin
    /\ jobs = [i \in Stages |-> [stdin |-> -1, stdout |-> -1]]
    /\ registered = {}
    /\ openfds = {0, 1, 2}
    /\ phase = [i \in Stages |-> "none"]
    /\ rc = [i \in Stages |-> 0]
    /\ cat = "none"
    /\ events = {}
    /\ cur = 0
    /\ ret = NonePoll
    /\ cnt = 0
    /\ printed = <<>>

\* foo = command('foo'): one Command with _args = [] and _no_raise = [0]
DslInit(impls, specs) ==
    /\ impl \in impls
    /\ \E s \in specs : heap = <<Command(s, 1, 1)>>
    /\ lists = << <<>> >>
    /\ nrlists = << <<0>> >>
    /\ invOf = <<0>>
    /\ last = NoLast
    /\ results = <<>>

DslIdle == DslInit({"dsl"}, {1})

NewId == Len(heap) + 1

Did(op, recv, operand, res, err) ==
    [NoLast EXCEPT !.op = op, !.recv = recv, !.operand = operand,
                   !.res = res, !.err = err]

\* the operation returned a new object (an exception is not caught: the
\* run ends with the first operation that raises)
Returns(node, inv, op, recv, operand, statuses) ==
    /\ last.err = "none"
    /\ Len(heap) < MaxNodes
    /\ heap' = Append(heap, node)
    /\ invOf' = Append(invOf, inv)
    /\ last' = [Did(op, recv, operand, NewId, "none")
                   EXCEPT !.statuses = statuses]

\* the operation raised
Raises(err, op, recv, operand) ==
    /\ last.err = "none"
    /\ Len(heap) < MaxNodes
    /\ last' = Did(op, recv, operand, 0, err)
    /\ UNCHANGED <<heap, invOf, lists, nrlists>>

\* ---- the Command builder ----

\* Command.__call__(*args, **kwargs)
Command__call__(c, a) ==
    LET cp == CommandCopy(c)
    IN  [node |-> cp.node, lists |-> ListAppend(cp.lists, cp.node.args, a),
         nrlists |-> cp.nrlists]

\* Command.__getitem__(key), key not a slice
Command__getitem__(c, key) ==
    LET cp == CommandCopy(c)
    IN  [node |-> cp.node,
         lists |-> ListExtend(cp.lists, cp.node.args, GetItemArgs(key)),
         nrlists |-> cp.nrlists]

\* Command.catch(*statuses)
Command_catch(c, statuses) ==
    LET cp == CommandCopy(c)
        nl == NewList(cp.nrlists, CatchList(statuses))
    IN  [node |-> [cp.node EXCEPT !.no_raise = nl.id], lists |-> cp.lists,
         nrlists |-> nl.store]

Call ==
    \E c \in 1..Len(heap), a \in CallArgs :
        /\ heap[c].kind = "Command"
        /\ LET r == Command__call__(c, a)
           IN  /\ Returns(r.node, 0, "call", c, NoOperand, <<>>)
               /\ lists' = r.lists
               /\ nrlists' = r.nrlists
        /\ UNCHANGED <<libVars, monVars, impl, results>>

GetItem ==
    \E c \in 1..Len(heap), key \in Keys :
        /\ heap[c].kind = "Command"
        /\ IF key.t = "slice"
           THEN Raises("NotImplementedError", "getitem", c, NoOperand)
           ELSE LET r == Command__getitem__(c, key)
                IN  /\ Returns(r.node, 0, "getitem", c, NoOperand, <<>>)
                    /\ lists' = r.lists
                    /\ nrlists' = r.nrlists
        /\ UNCHANGED <<libVars, monVars, impl, results>>

\* Command.__getattr__(name)
GetAttr ==
    \E c \in 1..Len(heap), name \in AttrNames :
        /\ heap[c].kind = "Command"
        /\ IF name[1] = "_"
           THEN Raises("AttributeError", "getattr", c, NoOperand)
           ELSE LET r == Command__call__(c,
                            Arg(<<>>, <<[name |-> name, value |-> TrueVal]>>))
                IN  /\ Returns(r.node, 0, "getattr", c, NoOperand, <<>>)
                    /\ lists' = r.lists
                    /\ nrlists' = r.nrlists
        /\ UNCHANGED <<libVars, monVars, impl, results>>

Catch ==
    \E c \in 1..Len(heap), statuses \in CatchArgs :
        /\ heap[c].kind = "Command"
        /\ LET r == Command_catch(c, statuses)
           IN  /\ Returns(r.node, 0, "catch", c, NoOperand, statuses)
               /\ lists' = r.lists
               /\ nrlists' = r.nrlists
        /\ UNCHANGED <<libVars, monVars, impl, results>>

BuildNext ==
    \/ Call
    \/ GetItem
    \/ GetAttr
    \/ Catch

\* ---- the operators, as Python dispatches them ----

\* x > o: x.__gt__(o); if that is NotImplemented the reflection o.__lt__(x)
\* (of Pipeline when o is a node; of str, PurePath, int, ... otherwise,
\* which know no Pipeline); if both are NotImplemented, TypeError
Gt ==
    \E x \in 1..Len(heap), o \in Operands :
        /\ LET fwd == IF impl = "dsl" THEN Pipeline__gt__(x, o)
                      ELSE PkgPipeline__gt__(x, o)
               refl == IF o.t = "node" THEN Pipeline__lt__(o.id, NodeRef(x))
                       ELSE NotImplemented
               out == IF fwd.ni THEN refl ELSE fwd
           IN  IF out.ni
               THEN Raises("TypeError", "gt", x, o)
               ELSE /\ Returns(out.node, 0, "gt", x, o, <<>>)
                    /\ UNCHANGED <<lists, nrlists>>
        /\ UNCHANGED <<libVars, monVars, impl, results>>

\* x >> o: x.__rshift__(o)
RShift ==
    \E x \in 1..Len(heap), o \in Operands :
        /\ LET out == Pipeline__rshift__(x, o)
           IN  IF out.raised
               THEN Raises("AssertionError", "rshift", x, o)
               ELSE /\ Returns(out.node, 0, "rshift", x, o, <<>>)
                    /\ UNCHANGED <<lists, nrlists>>
        /\ UNCHANGED <<libVars, monVars, impl, results>>

\* x | o: x.__or__(o); a value that is no Pipeline has no __ror__ that
\* accepts a Pipeline, so NotImplemented ends in TypeError
Or ==
    \E x \in 1..Len(heap), o \in Operands :
        /\ LET out == Pipeline__or__(x, o)
           IN  IF out.ni
               THEN Raises("TypeError", "or", x, o)
               ELSE /\ Returns(out.node, 0, "or", x, o, <<>>)
                    /\ UNCHANGED <<lists, nrlists>>
        /\ UNCHANGED <<libVars, monVars, impl, results>>

\* o | x with o no Pipeline (a Pipeline on the left answers in __or__): o
\* has no __or__ that accepts a Pipeline, so the reflection x.__ror__(o)
\* decides; if that is NotImplemented, TypeError
ROr ==
    \E x \in 1..Len(heap), o \in Operands :
        /\ ~IsPipeline(o)
        /\ LET out == Pipeline__ror__(x, o)
           IN  IF out.ni
               THEN Raises("TypeError", "ror", x, o)
               ELSE /\ Returns(out.node, 0, "ror", x, o, <<>>)
                    /\ UNCHANGED <<lists, nrlists>>
        /\ UNCHANGED <<libVars, monVars, impl, results>>

\* x ^ o for a Pipeline, a str, a path or a file
Xor ==
    \E x \in 1..Len(heap), o \in Operands :
        /\ o.t \in {"node", "str", "path", "file"}
        /\ Returns(Pipeline__xor__(x, o), 0, "xor", x, o, <<>>)
        /\ UNCHANGED <<libVars, monVars, impl, results, lists, nrlists>>

\* ~x: pysh/dsl.py wraps x in a Reckless; pysh/dsl/pipeline.py returns a
\* copy of x with the reckless flag flipped
Invert ==
    \E x \in 1..Len(heap) :
        /\ IF impl = "dsl"
           THEN /\ Returns(Pipeline__invert__(x), x, "invert", x, NoOperand, <<>>)
                /\ UNCHANGED <<lists, nrlists>>
           ELSE IF heap[x].kind = "Command"
           THEN LET cp == CommandCopy(x)
                IN  /\ Returns([cp.node EXCEPT
                                   !.reckless = PkgToggle(cp.node.reckless)],
                               x, "invert", x, NoOperand, <<>>)
                    /\ lists' = cp.lists
                    /\ nrlists' = cp.nrlists
           ELSE LET clone == PkgPipelineCopy(x)
                IN  /\ Returns([clone EXCEPT
                                   !.reckless = PkgToggle(clone.reckless)],
                               x, "invert", x, NoOperand, <<>>)
                    /\ UNCHANGED <<lists, nrlists>>
        /\ UNCHANGED <<libVars, monVars, impl, results>>

ExprNext ==
    \/ Gt
    \/ RShift
    \/ Or
    \/ ROr
    \/ Xor
    \/ Invert

\* ---- invoke and wait ----

\* Pipeline.invoke(): pysh/dsl.py raises NotImplementedError and no class
\* overrides it; pysh/dsl/pipeline.py returns Result(self) ("TODO: launch
\* the command")
Invoke ==
    \E x \in 1..Len(heap) :
        /\ last.err = "none"
        /\ IF impl = "dsl"
           THEN /\ last' = Did("invoke", x, NoOperand, 0, "NotImplementedError")
                /\ UNCHANGED results
           ELSE /\ Len(results) < MaxResults
                /\ results' = Append(results, Result(x))
                /\ last' = Did("invoke", x, NoOperand, Len(results) + 1, "none")
        /\ UNCHANGED <<libVars, monVars, impl, heap, lists, nrlists, invOf>>

\* the body of Result.wait(), only a docstring: nothing is assigned
Result_wait(r) == r

\* result.wait() returns; exits are the statuses the processes of the
\* Commands end with, which nothing reads
Wait ==
    \E k \in 1..Len(results) :
        /\ last.err = "none"
        /\ ~results[k].waited
        /\ \E e \in [{c \in 1..Len(heap) : heap[c].kind = "Command"}
                       -> ExitCodes] :
              results' = [results EXCEPT ![k] =
                             [Result_wait(@) EXCEPT !.waited = TRUE,
                                                    !.exits = e]]
        /\ last' = Did("wait", results[k].pipeline, NoOperand, k, "none")
        /\ UNCHANGED <<libVars, monVars, impl, heap, lists, nrlists, invOf>>

RunNext ==
    \/ Or
    \/ Invert
    \/ Invoke
    \/ Wait

(***************************************************************************)
(* The argument encoder: ExternalSpec of pysh/dsl/command.py, and of       *)
(* pysh/command.py (the module tests/test_command_external.py imports).    *)
(* A str is the sequence of its characters.                                *)
(***************************************************************************)

\* ---- values ----

FalseVal == [t |-> "bool", s |-> <<"F", "a", "l", "s", "e">>]
NoneVal == [t |-> "none", s |-> <<"N", "o", "n", "e">>]
ListVal(items) == [t |-> "list", items |-> items]

\* str(x)
Str(x) == x.s

\* value is True
IsTrue(value) == value = TrueVal

\* value in (False, None): compared with ==, and 0 == False
InFalseNone(value) ==
    \/ value = FalseVal
    \/ value = NoneVal
    \/ value.t = "int" /\ value.s = <<"0">>

\* if isinstance(value, str) or not isinstance(value, Iterable):
\*     value = [value]
AsList(value) == IF value.t = "list" THEN value.items ELSE <<value>>

\* [str(v) for v in value]
StrEach(value) == [i \in 1..Len(value) |-> Str(value[i])]

\* option.replace('_', '-')
Hyphenated(option) ==
    [i \in 1..Len(option) |-> IF option[i] = "_" THEN "-" ELSE option[i]]

\* s.startswith(prefix)
StartsWith(s, prefix) ==
    Len(s) >= Len(prefix) /\ SubSeq(s, 1, Len(prefix)) = prefix

\* sum(lists, [])
RECURSIVE Sum(_)
Sum(seqs) == IF seqs = <<>> THEN <<>> ELSE Head(seqs) \o Sum(Tail(seqs))

\* a join that drops the separator
JoinNoSep(sep, strs) == Sum(strs)

\* sep.join(strs)
RECURSIVE Join(_, _)
Join(sep, strs) ==
    IF strs = <<>> THEN <<>>
    ELSE IF Len(strs) = 1 THEN strs[1]
    ELSE strs[1] \o sep \o Join(sep, Tail(strs))

\* the characters of the names in use, in code point order
CharOrder == <<"-", "_", "a", "b", "c", "d", "o", "p", "t">>

Ord(ch) == CHOOSE i \in 1..Len(CharOrder) : CharOrder[i] = ch

\* a < b for two str
RECURSIVE StrLess(_, _)
StrLess(a, b) ==
    IF b = <<>> THEN FALSE
    ELSE IF a = <<>> THEN TRUE
    ELSE IF a[1] # b[1] THEN Ord(a[1]) < Ord(b[1])
    ELSE StrLess(Tail(a), Tail(b))

\* sorted(kwargs.keys()), as the items of kwargs in that order
RECURSIVE InsertSorted(_, _)
InsertSorted(kw, sorted) ==
    IF sorted = <<>> THEN <<kw>>
    ELSE IF StrLess(kw.name, Head(sorted).name) THEN <<kw>> \o sorted
    ELSE <<Head(sorted)>> \o InsertSorted(kw, Tail(sorted))

RECURSIVE Sorted(_)
Sorted(kws) ==
    IF kws = <<>> THEN <<>> ELSE InsertSorted(Head(kws), Sorted(Tail(kws)))

\* ---- ExternalSpec ----

\* repeat: True, False or a separator str
RepeatTrue == [kind |-> "true", sep |-> <<>>]
RepeatFalse == [kind |-> "false", sep |-> <<>>]
RepeatJoin(sep) == [kind |-> "join", sep |-> sep]

\* ExternalSpec.__init__; None for valuepre or argspre is the empty str,
\* both are only tested for truth
ExternalSpec(hyphenate, repeat, shortpre, longpre, valuepre, argspre) ==
    [hyphenate |-> hyphenate, repeat |-> repeat, shortpre |-> shortpre,
     longpre |-> longpre, valuepre |-> valuepre, argspre |-> argspre]

\* an encoder that emits the option once, whatever repeat and valuepre are
ParseOptionOnce(self, option, value) ==
    LET hyph == IF self.hyphenate THEN Hyphenated(option) ELSE option
        is_short == Len(hyph) = 1
        opt == IF ~StartsWith(hyph, <<"-">>)
               THEN (IF is_short THEN self.shortpre ELSE self.longpre) \o hyph
               ELSE hyph
    IN  IF IsTrue(value) THEN <<opt>>
        ELSE IF InFalseNone(value) THEN <<>>
        ELSE <<opt>> \o StrEach(AsList(value))

\* ExternalSpec._parse_option(option, value), the same in both modules
_parse_option(self, option, value) ==
    LET hyph == IF self.hyphenate THEN Hyphenated(option) ELSE option
        is_short == Len(hyph) = 1
        opt == IF ~StartsWith(hyph, <<"-">>)
               THEN (IF is_short THEN self.shortpre ELSE self.longpre) \o hyph
               ELSE hyph
    IN  IF IsTrue(value) THEN <<opt>>
        ELSE IF InFalseNone(value) THEN <<>>
        ELSE LET strs == StrEach(AsList(value))
             IN  IF self.repeat.kind = "false" THEN <<opt>> \o strs
                 ELSE LET vals == IF self.repeat.kind # "true"
                                  THEN <<Join(self.repeat.sep, strs)>>
                                  ELSE strs
                      IN  IF self.valuepre # <<>>
                          THEN [i \in 1..Len(vals) |->
                                    opt \o self.valuepre \o vals[i]]
                          ELSE Sum([i \in 1..Len(vals) |-> <<opt, vals[i]>>])

\* the loop over kwargs of parse_args in pysh/dsl/command.py: the option
\* tokens (result) and the values of '_' (appended to args)
RECURSIVE OptionTokens(_, _)
OptionTokens(self, kws) ==
    IF kws = <<>> THEN <<>>
    ELSE IF Head(kws).name = <<"_">> THEN OptionTokens(self, Tail(kws))
    ELSE _parse_option(self, Head(kws).name, Head(kws).value)
         \o OptionTokens(self, Tail(kws))

RECURSIVE UnderscoreValues(_)
UnderscoreValues(kws) ==
    IF kws = <<>> THEN <<>>
    ELSE (IF Head(kws).name = <<"_">> THEN <<Head(kws).value>> ELSE <<>>)
         \o UnderscoreValues(Tail(kws))

\* the loop over args of parse_args: every arg flattened and stringified
PositionalTokens(args) ==
    Sum([i \in 1..Len(args) |-> StrEach(AsList(args[i]))])

\* if self.argspre: result.append(self.argspre)
ArgspreTokens(self) == IF self.argspre # <<>> THEN <<self.argspre>> ELSE <<>>

\* the loop over sorted(kwargs.keys()) of parse_args in pysh/command.py
RECURSIVE SortedOptionTokens(_, _)
SortedOptionTokens(self, kws) ==
    IF kws = <<>> THEN <<>>
    ELSE _parse_option(self, Head(kws).name, Head(kws).value)
         \o SortedOptionTokens(self, Tail(kws))

\* a parse_args that knows no '_' keyword
ParseArgsNoMarker(self, args, kwargs) ==
    SortedOptionTokens(self, kwargs)
    \o ArgspreTokens(self)
    \o PositionalTokens(args)

\* ExternalSpec.parse_args of pysh/dsl/command.py
parse_args(self, args, kwargs) ==
    OptionTokens(self, kwargs)
    \o ArgspreTokens(self)
    \o PositionalTokens(args \o UnderscoreValues(kwargs))

\* ExternalSpec.parse_args of pysh/command.py
Cmd_parse_args(self, args, kwargs) ==
    SortedOptionTokens(self, Sorted(kwargs))
    \o ArgspreTokens(self)
    \o PositionalTokens(args)

\* ExternalSpec.get_args_for(builder) of pysh/dsl/command.py
RECURSIVE get_args_for(_, _)
get_args_for(self, builderArgs) ==
    IF builderArgs = <<>> THEN <<>>
    ELSE parse_args(self, Head(builderArgs).positional,
                    Head(builderArgs).keywords)
         \o get_args_for(self, Tail(builderArgs))

\* Command.__call__ of pysh/command.py, call after call:
\* clone.args.extend(self.spec.parse_args(*args, **kwargs))
RECURSIVE Cmd_args(_, _)
Cmd_args(self, calls) ==
    IF calls = <<>> THEN <<>>
    ELSE Cmd_parse_args(self, Head(calls).positional, Head(calls).keywords)
         \o Cmd_args(self, Tail(calls))

\* ---- inputs ----

\* one item of kwargs
Kw(name, value) == [name |-> name, value |-> value]

Opt == <<"o", "p", "t">>
Bar == StrVal(<<"b", "a", "r">>)
Baz == StrVal(<<"b", "a", "z">>)
DashBaz == StrVal(<<"-", "b", "a", "z">>)
DashDash == <<"-", "-">>
OneTwoThree == ListVal(<<IntVal(<<"1">>), IntVal(<<"2">>), IntVal(<<"3">>)>>)

\* the settings of ExternalSpec(command, **kwargs)
EncSpecs ==
    { ExternalSpec(h, r, <<"-">>, DashDash, v, a) :
        h \in BOOLEAN,
        r \in {RepeatTrue, RepeatFalse, RepeatJoin(<<",">>)},
        v \in {<<>>, <<"=">>},
        a \in {<<>>, DashDash} }

\* the argument groups: cmd(*args, **kwargs) and cmd[key]
EncGroups ==
    { Arg(<<>>, <<Kw(Opt, FalseVal)>>),
      Arg(<<>>, <<Kw(<<"a">>, TrueVal), Kw(<<"c">>, NoneVal),
                  Kw(<<"d">>, IntVal(<<"1", "0">>))>>),
      Arg(<<>>, <<Kw(Opt, OneTwoThree)>>),
      Arg(<<Bar, Baz>>, <<Kw(Opt, TrueVal)>>),
      Arg(<<Bar, DashBaz>>, <<Kw(Opt, TrueVal)>>),
      Arg(<<StrVal(<<"-", "x">>)>>, <<>>),
      Arg(<<StrVal(DashDash)>>, <<>>),
      Arg(<<Bar>>, <<Kw(<<"b">>, TrueVal), Kw(<<"a", "_", "b">>, Baz)>>),
      Arg(<<Bar>>, <<Kw(<<"_">>, Baz), Kw(Opt, TrueVal)>>),
      Arg(<<>>, <<Kw(Opt, TrueVal), Kw(<<"_">>, ListVal(<<Bar, DashBaz>>))>>) }

\* the lists of at most k groups
RECURSIVE GroupLists(_)
GroupLists(k) ==
    IF k = 0 THEN {<<>>}
    ELSE LET shorter == GroupLists(k - 1)
         IN  shorter \cup {Append(l, g) : l \in shorter, g \in EncGroups}

NotEncoded == [by |-> "none", out |-> <<>>]

\* ---- states and steps ----

EncIdle ==
    /\ espec = ExternalSpec(TRUE, RepeatTrue, <<"-">>, DashDash, <<>>, <<>>)
    /\ eargs = <<>>
    /\ encoded = NotEncoded

EncInit ==
    /\ espec \in EncSpecs
    /\ eargs \in GroupLists(MaxGroups) \ {<<>>}
    /\ encoded = NotEncoded

\* spec.get_args_for(cmd), pysh/dsl/command.py
GetArgsFor ==
    /\ encoded = NotEncoded
    /\ encoded' = [by |-> "pysh/dsl/command.py",
                   out |-> get_args_for(espec, eargs)]
    /\ UNCHANGED <<monVars, dslVars, envVars, espec, eargs>>

\* cmd(...)(...).args, pysh/command.py
CommandArgs ==
    /\ encoded = NotEncoded
    /\ encoded' = [by |-> "pysh/command.py", out |-> Cmd_args(espec, eargs)]
    /\ UNCHANGED <<monVars, dslVars, envVars, espec, eargs>>

EncNext ==
    \/ GetArgsFor
    \/ CommandArgs

(***************************************************************************)
(* Environment variables: Env of pysh/env.py.                              *)
(***************************************************************************)

\* None: os.environ.get(name) of a name that is not set
None == "None"
\* a key a dict does not hold
Missing == "Missing"

EnvValues == {"foo", "bar"}
\* the names given to env[name]
EnvKeys == {"FOO", "foo", "BAR"}

\* name.upper()
Upper(name) == IF name = "foo" THEN "FOO" ELSE name

EnvNames == {Upper(k) : k \in EnvKeys}

\* Env.__init__(**kwargs): vars = kwargs, saved = {}
Env(kwargs) == [vars |-> kwargs, saved |-> [k \in EnvNames |-> Missing]]

\* Env.__setitem__(name, value) on the pair (environ, env)
Env__setitem__(st, key, value) ==
    LET name == Upper(key)
        sv == IF st.env.saved[name] = Missing
              THEN [st.env.saved EXCEPT ![name] = st.environ[name]]
              ELSE st.env.saved
    IN  [environ |-> [st.environ EXCEPT ![name] = value],
         env |-> [vars |-> [st.env.vars EXCEPT ![name] = value],
                  saved |-> sv]]

\* for k, v in self.vars.items(): self[k] = v
RECURSIVE SetAll(_, _)
SetAll(st, names) ==
    IF names = {} THEN st
    ELSE LET k == CHOOSE x \in names : TRUE
         IN  SetAll(Env__setitem__(st, k, st.env.vars[k]), names \ {k})

\* Env.__exit__: every saved name gets its saved value back, a name saved
\* as None is deleted (it is set: __enter__ and env[name] = value set it)
Env__exit__(st) ==
    [name \in EnvNames |->
        IF st.env.saved[name] = Missing THEN st.environ[name]
        ELSE st.env.saved[name]]

EnvDid(op, name) == [op |-> op, name |-> name]

EnvIdle ==
    /\ environ = [k \in EnvNames |-> None]
    /\ env = Env([k \in EnvNames |-> Missing])
    /\ inBlock = FALSE
    /\ atEnter = [k \in EnvNames |-> None]
    /\ touched = {}
    /\ scopes = 0
    /\ envlast = EnvDid("none", "")

\* env = Env(**kwargs) with upper-case names, in any os.environ
EnvInit ==
    /\ environ \in [EnvNames -> EnvValues \cup {None}]
    /\ \E kwargs \in [EnvNames -> {"bar", Missing}] : env = Env(kwargs)
    /\ inBlock = FALSE
    /\ atEnter = environ
    /\ touched = {}
    /\ scopes = 0
    /\ envlast = EnvDid("none", "")

\* with env: (the same env is not entered again inside its own block)
Enter ==
    /\ ~inBlock
    /\ scopes < MaxScopes
    /\ LET held == {k \in EnvNames : env.vars[k] # Missing}
           st == SetAll([environ |-> environ, env |-> env], held)
       IN  /\ environ' = st.environ
           /\ env' = st.env
           /\ touched' = held
    /\ inBlock' = TRUE
    /\ scopes' = scopes + 1
    /\ atEnter' = environ
    /\ envlast' = EnvDid("enter", "")
    /\ UNCHANGED <<monVars, dslVars, encVars>>

\* env[key] = value, inside or outside a with-block
SetItem ==
    \E key \in EnvKeys, value \in EnvValues :
        /\ LET st == Env__setitem__([environ |-> environ, env |-> env],
                                    key, value)
           IN  /\ environ' = st.environ
               /\ env' = st.env
        /\ touched' = IF inBlock THEN touched \cup {Upper(key)} ELSE touched
        /\ envlast' = EnvDid("setitem", Upper(key))
        /\ UNCHANGED <<monVars, dslVars, encVars, inBlock, atEnter, scopes>>

\* the end of the with-block
Exit ==
    /\ inBlock
    /\ environ' = Env__exit__([environ |-> environ, env |-> env])
    /\ inBlock' = FALSE
    /\ envlast' = EnvDid("exit", "")
    /\ UNCHANGED <<monVars, dslVars, encVars, env, atEnter, touched, scopes>>

\* os.environ[name] = value, by the program itself and outside the block
EnvironSet ==
    \E name \in EnvNames, value \in EnvValues :
        /\ ~inBlock
        /\ environ' = [environ EXCEPT ![name] = value]
        /\ envlast' = EnvDid("environ", name)
        /\ UNCHANGED <<monVars, dslVars, encVars, env, inBlock, atEnter,
                       touched, scopes>>

EnvNext ==
    \/ Enter
    \/ SetItem
    \/ Exit
    \/ EnvironSet

(***************************************************************************)
(* Specifications.                                                         *)
(***************************************************************************)

\* demo-stream.py: the launch loop, the monitor loop and the processes
MonitorInit == MonInit /\ DslIdle /\ EncIdle /\ EnvIdle

SpecMon == MonitorInit /\ [][MonNext]_vars

\* The script is a single thread that always takes its next step; nothing
\* is assumed about when the processes terminate.
FairMon == MonitorInit /\ [][MonNext]_vars /\ WF_vars(ScriptNext)

\* pysh/dsl.py: the Command builder
BuildInit == MonIdle /\ DslInit({"dsl"}, 1..Len(Specs)) /\ EncIdle /\ EnvIdle

SpecBuild == BuildInit /\ [][BuildNext]_vars

\* the operators of Pipeline, in both modules
ExprInit == MonIdle /\ DslInit({"dsl", "pkg"}, {1}) /\ EncIdle /\ EnvIdle

SpecExpr == ExprInit /\ [][ExprNext]_vars

\* building, invoking and waiting, in both modules
RunInit == MonIdle /\ DslInit({"dsl", "pkg"}, {1}) /\ EncIdle /\ EnvIdle

SpecRun == RunInit /\ [][RunNext]_vars

\* the argument encoder applied to argument groups
ArgsInit == MonIdle /\ DslIdle /\ EncInit /\ EnvIdle

SpecArgs == ArgsInit /\ [][EncNext]_vars

\* an Env object and os.environ
EnvironInit == MonIdle /\ DslIdle /\ EncIdle /\ EnvInit

SpecEnv == EnvironInit /\ [][EnvNext]_vars


(***************************************************************************)
(* Claims about the launch loop and the completion monitor.                *)
(***************************************************************************)

AllStagesTerminated == \A i \in 1..n : phase[i] = "terminated"

\* C2: under any order in which the stage processes terminate, once every
\* stage process has terminated the monitor eventually finalizes all of them
\* (cnt reaches 0) and its loop exits.
C2_MonitorEventuallyExits == AllStagesTerminated ~> (pc = "done" /\ cnt = 0)

\* C4: every status line the monitor prints for a process whose raw return
\* code is r < 0 is Signal(-r), and for r >= 0 it is Exit(r); a signal is
\* never printed as an exit with a negative code.
C4_SignalNeverNegativeExit ==
    \A k \in 1..Len(printed) :
        LET line == printed[k]
            raw == rc[line.pid]
        IN  /\ raw < 0 => line.kind = "Signal" /\ line.n = -raw
            /\ raw >= 0 => line.kind = "Exit" /\ line.n = raw
            /\ ~(line.kind = "Exit" /\ line.n < 0)

\* a process killed by a signal has been reported
C4_Witness ==
    \E k \in 1..Len(printed) :
        printed[k].kind = "Signal" /\ printed[k].n = 9 /\ rc[printed[k].pid] = -9

\* C5: when the spawn of stage k fails the invocation is not aborted: the
\* launch loop goes on to the other stages and the monitor runs.
C5_SpawnFailureDoesNotAbort == missing \in 1..n => pc # "aborted"


(***************************************************************************)
(* Claims about the Command builder.                                       *)
(***************************************************************************)

\* C6: a builder operation (call, cmd[key], cmd.name, catch) leaves every
\* existing Command as it was, with the contents of its argument list and
\* of its ignore-status list, and the Command it returns is a new object
\* with lists of its own and the spec of the receiver.
C6_BuilderLeavesReceiver ==
    [][ /\ \A c \in 1..Len(heap) :
              /\ heap'[c] = heap[c]
              /\ lists'[heap[c].args] = lists[heap[c].args]
              /\ nrlists'[heap[c].no_raise] = nrlists[heap[c].no_raise]
        /\ Len(heap') > Len(heap) =>
              LET new == heap'[Len(heap')]
              IN  /\ Len(heap') = Len(heap) + 1
                  /\ new.kind = "Command"
                  /\ new.spec = heap[last'.recv].spec
                  /\ \A c \in 1..Len(heap) :
                        /\ new.args # heap[c].args
                        /\ new.no_raise # heap[c].no_raise ]_vars

\* a Command derived from a derived Command, with more arguments than it
C6_Witness ==
    /\ last.op \in {"call", "getitem", "getattr"}
    /\ last.res # 0
    /\ last.recv > 1
    /\ Len(lists[heap[last.res].args]) > Len(lists[heap[last.recv].args])
    /\ lists[heap[last.recv].args] # <<>>

\* C8: after c.catch(s1..sn) with n > 0 the ignore list holds the default
\* ok statuses of the spec (exit status 0 among them) and s1..sn.
C8_CatchKeepsDefaultOk ==
    (last.op = "catch" /\ last.statuses # <<>>) =>
        LET ignored == Range(nrlists[heap[last.res].no_raise])
        IN  /\ 0 \in ignored
            /\ ignored = Specs[heap[last.res].spec].ok_status
                            \cup Range(last.statuses)

(***************************************************************************)
(* Claims about the operators.                                             *)
(***************************************************************************)

\* ~x suppresses the failure of x: a Reckless wrapper in pysh/dsl.py, the
\* reckless flag in pysh/dsl/pipeline.py
Suppressed(x) == heap[x].kind = "Reckless" \/ heap[x].reckless

\* C7: for every node m, ~~m is suppressed exactly when m is, and is an
\* object of the class of m (a toggle, not a stack of wrappers).
C7_DoubleSuppressCancels ==
    \A x \in 1..Len(heap) :
        (invOf[x] # 0 /\ invOf[invOf[x]] # 0) =>
            LET m == invOf[invOf[x]]
            IN  /\ Suppressed(x) <=> Suppressed(m)
                /\ heap[x].kind = heap[m].kind

FileTargets == {"str", "path", "file"}

\* C9: x > o with o a Pipeline object, or a value that is neither a str, a
\* path nor a file, raises TypeError and returns nothing; no Redirect that
\* > has returned has such a target.
C9_GtRejectsNonFileTargets ==
    /\ (last.op = "gt" /\ last.operand.t \notin FileTargets) =>
           (last.err = "TypeError" /\ last.res = 0)
    /\ \A x \in 1..Len(heap) :
           (heap[x].kind = "Redirect" /\ ~heap[x].appending /\ invOf[x] = 0)
               => heap[x].rhs.t \in FileTargets

\* cmd > (a Pipe) has raised TypeError
C9_Witness ==
    /\ last.op = "gt"
    /\ last.operand.t = "node"
    /\ heap[last.operand.id].kind = "Pipe"
    /\ last.err = "TypeError"
    /\ \A x \in 1..Len(heap) : heap[x].kind # "Redirect"

\* C10: x >> o with o a Pipeline object of any class raises and returns
\* nothing; no Redirect that >> has returned has a Pipeline object as its
\* target.
C10_RShiftRejectsNodes ==
    /\ (last.op = "rshift" /\ last.operand.t = "node") =>
           (last.err # "none" /\ last.res = 0)
    /\ \A x \in 1..Len(heap) :
           (heap[x].kind = "Redirect" /\ heap[x].appending) =>
               heap[x].rhs.t # "node"

(***************************************************************************)
(* Claims about invoke, wait and the aggregated result.                    *)
(***************************************************************************)

\* C3: after wait() has returned the status of the result is set.
C3_WaitSetsStatus ==
    \A k \in 1..Len(results) : results[k].waited => results[k].status.set

\* the stages of a pipeline in evaluation order: the Command of each stage
\* and whether a ~ above it suppresses its failure
RECURSIVE StagesOf(_, _)
StagesOf(x, sup) ==
    IF x = 0 THEN <<>>
    ELSE LET node == heap[x]
             s == sup \/ node.reckless
         IN  IF node.kind = "Command" THEN <<[cmd |-> x, sup |-> s]>>
             ELSE IF node.kind = "Reckless" THEN StagesOf(node.expr, TRUE)
             ELSE IF node.kind = "Redirect" THEN StagesOf(node.lhs, s)
             ELSE StagesOf(node.lhs, s)
                  \o (IF node.rhs.t = "node" THEN StagesOf(node.rhs.id, s)
                      ELSE <<>>)

\* the stage ended with a status its Command does not ignore
StageFails(stage, exits) ==
    /\ ~stage.sup
    /\ exits[stage.cmd] \notin Range(nrlists[heap[stage.cmd].no_raise])

\* C1: once waited for, the status of the result of a pipeline is the
\* status of its last stage, and the result is reported as failed exactly
\* when some stage that is not suppressed ended with a failing status.
C1_LastStatusAnyFailure ==
    \A k \in 1..Len(results) :
        LET r == results[k]
            stages == StagesOf(r.pipeline, FALSE)
        IN  (r.waited /\ stages # <<>>) =>
                /\ r.status = IntStatus(r.exits[stages[Len(stages)].cmd])
                /\ r.raised <=>
                       \E i \in 1..Len(stages) : StageFails(stages[i], r.exits)


(***************************************************************************)
(* Claims about the pipe operator.                                         *)
(***************************************************************************)

\* C11: x | o returns Pipe(x, o), holding the two operand objects
\* themselves, exactly when o is a Pipeline object; x | o and o | x with o
\* a file, a path, a str, a function or any other value raise TypeError and
\* build nothing; every Pipe built by | has Pipeline objects on both sides.
C11_PipeOnlyBetweenNodes ==
    /\ (last.op \in {"or", "ror"} /\ last.operand.t = "node") =>
           /\ last.err = "none"
           /\ heap[last.res] = Pipe(last.recv, NodeRef(last.operand.id))
    /\ (last.op \in {"or", "ror"} /\ last.operand.t # "node") =>
           (last.err = "TypeError" /\ last.res = 0)
    /\ \A x \in 1..Len(heap) :
           (heap[x].kind = "Pipe" /\ invOf[x] = 0) =>
               /\ heap[x].lhs \in 1..(x - 1)
               /\ heap[x].rhs.t = "node"
               /\ heap[x].rhs.id \in 1..(x - 1)

\* a Pipe has been built and piping it into a function has raised
C11_Witness ==
    /\ last.op = "or"
    /\ last.operand.t = "func"
    /\ last.err = "TypeError"
    /\ heap[last.recv].kind = "Pipe"
    /\ heap[last.recv].lhs # 0

(***************************************************************************)
(* Claims about the argument encoder.                                      *)
(***************************************************************************)

\* the argument groups an operation adds
GroupsOf(op) ==
    IF op = "call" THEN {<<a>> : a \in CallArgs}
    ELSE IF op = "getitem" THEN {GetItemArgs(k) : k \in Keys \ {[t |-> "slice", s |-> <<>>]}}
    ELSE {<<Arg(<<>>, <<Kw(nm, TrueVal)>>)>> : nm \in AttrNames}

ByGetArgsFor == encoded.by = "pysh/dsl/command.py"

\* the only group of a stage built by one call
OneGroup == Len(eargs) = 1
TheGroup == eargs[1]

LongOpt == DashDash \o Opt

\* the tokens the encoder puts after the option tokens of a group, other
\* than those of the positional arguments
AfterOptions == ArgspreTokens(espec)

\* the encoded list without the tokens after position k
FirstTokens(k) == SubSeq(encoded.out, 1, k)

\* the last k tokens of the encoded list
LastTokens(k) == SubSeq(encoded.out, Len(encoded.out) - k + 1, Len(encoded.out))

IsFalseOrNone(value) == value \in {FalseVal, NoneVal}

\* the keywords that are not false or None
RECURSIVE Given(_)
Given(kws) ==
    IF kws = <<>> THEN <<>>
    ELSE (IF IsFalseOrNone(Head(kws).value) THEN <<>> ELSE <<Head(kws)>>)
         \o Given(Tail(kws))

\* C13: for every ExternalSpec, a group whose only named options are false
\* or None (and with no positional) encodes to the empty list, and a group
\* with other options encodes as the group without the false ones.
C13_FalseOptionNoToken ==
    (ByGetArgsFor /\ OneGroup) =>
        /\ encoded.out
              = get_args_for(espec, <<Arg(TheGroup.positional,
                                          Given(TheGroup.keywords))>>)
        /\ (TheGroup.positional = <<>> /\ Given(TheGroup.keywords) = <<>>)
              => encoded.out = <<>>

C15_JoinAndTrailing ==
    (ByGetArgsFor /\ eargs = <<Arg(<<>>, <<Kw(Opt, OneTwoThree)>>)>>
       /\ espec.repeat # RepeatTrue) =>
        LET tokens == FirstTokens(Len(encoded.out) - Len(AfterOptions))
            joined == <<"1", ",", "2", ",", "3">>
        IN  IF espec.repeat = RepeatFalse
            THEN tokens = <<LongOpt, <<"1">>, <<"2">>, <<"3">>>>
            ELSE IF espec.valuepre = <<>>
            THEN tokens = <<LongOpt, joined>>
            ELSE tokens = <<LongOpt \o <<"=">> \o joined>>

\* cmd(opt=[1,2,3]) has been encoded with repeat=',' and valuepre '='
C15_Witness ==
    /\ ByGetArgsFor
    /\ eargs = <<Arg(<<>>, <<Kw(Opt, OneTwoThree)>>)>>
    /\ espec.repeat = RepeatJoin(<<",">>)
    /\ espec.valuepre = <<"=">>
    /\ espec.argspre = <<>>
    /\ encoded.out = <<LongOpt \o <<"=", "1", ",", "2", ",", "3">>>>

\* the positional tokens of a group, those of '_' included
GroupPositionals(g) ==
    PositionalTokens(g.positional \o UnderscoreValues(g.keywords))

\* a token that reads as an option
LooksLikeOption(token) ==
    StartsWith(token, espec.shortpre) \/ StartsWith(token, espec.longpre)

NeedsSeparator(g) ==
    \E i \in 1..Len(GroupPositionals(g)) :
        LooksLikeOption(GroupPositionals(g)[i])

\* the caller gave the separator token itself as an argument
SuppliesSeparator(g) ==
    \E i \in 1..Len(GroupPositionals(g)) :
        GroupPositionals(g)[i] = espec.argspre

\* the list with the separator once, before the first positional run that
\* needs it
RECURSIVE SeparatedOnce(_, _)
SeparatedOnce(groups, inserted) ==
    IF groups = <<>> THEN <<>>
    ELSE LET g == Head(groups)
             here == ~inserted /\ NeedsSeparator(g)
         IN  OptionTokens(espec, g.keywords)
             \o (IF here THEN <<espec.argspre>> ELSE <<>>)
             \o GroupPositionals(g)
             \o SeparatedOnce(Tail(groups), inserted \/ here)

\* C16: with argspre set (and not given by the caller), the separator is
\* in the list exactly once, immediately before the first run of positional
\* tokens with a token that starts with shortpre or longpre, and not at all
\* when there is no such token.
C16_SeparatorOnlyWhenNeeded ==
    (ByGetArgsFor /\ espec.argspre # <<>>
       /\ \A i \in 1..Len(eargs) : ~SuppliesSeparator(eargs[i]))
        => encoded.out = SeparatedOnce(eargs, FALSE)

\* occurrences of a token in a list
RECURSIVE Count(_, _)
Count(tokens, token) ==
    IF tokens = <<>> THEN 0
    ELSE (IF Head(tokens) = token THEN 1 ELSE 0) + Count(Tail(tokens), token)

\* C17: when the caller gives the separator token as an argument the list
\* holds it exactly once, where the caller put it: the list is that of the
\* option and positional tokens alone.
C17_SeparatorNotDuplicated ==
    (ByGetArgsFor /\ espec.argspre # <<>>
       /\ Count(Sum([i \in 1..Len(eargs) |-> GroupPositionals(eargs[i])]),
                espec.argspre) = 1)
        => /\ Count(encoded.out, espec.argspre) = 1
           /\ encoded.out = SeparatedOnce(eargs, TRUE)

HasMarker(g) == \E i \in 1..Len(g.keywords) : g.keywords[i].name = <<"_">>

\* the option tokens of the keywords, in the order they were passed
RECURSIVE InCallOrder(_)
InCallOrder(kws) ==
    IF kws = <<>> THEN <<>>
    ELSE _parse_option(espec, Head(kws).name, Head(kws).value)
         \o InCallOrder(Tail(kws))

\* C18: in both modules the list of a group (with no '_' keyword) starts
\* with the tokens of its named options in the order they were passed and
\* ends with its positional tokens.
C18_OptionsFirstInCallOrder ==
    (encoded # NotEncoded /\ OneGroup /\ ~HasMarker(TheGroup)) =>
        LET opts == InCallOrder(TheGroup.keywords)
            pos == PositionalTokens(TheGroup.positional)
        IN  /\ Len(encoded.out) >= Len(opts) + Len(pos)
            /\ FirstTokens(Len(opts)) = opts
            /\ LastTokens(Len(pos)) = pos

\* C19: the value of a '_' keyword gives no option token: the list of the
\* group is its option tokens, then its positional tokens, then the value
\* of '_', item by item.
C19_MarkerIsPositional ==
    (ByGetArgsFor /\ OneGroup /\ HasMarker(TheGroup)) =>
        LET others == SelectSeq(TheGroup.keywords,
                                LAMBDA kw : kw.name # <<"_">>)
            opts == InCallOrder(others)
            pos == PositionalTokens(TheGroup.positional)
            extra == PositionalTokens(UnderscoreValues(TheGroup.keywords))
        IN  /\ Len(encoded.out)
                  = Len(opts) + Len(AfterOptions) + Len(pos) + Len(extra)
            /\ FirstTokens(Len(opts)) = opts
            /\ LastTokens(Len(pos) + Len(extra)) = pos \o extra

\* cmd('bar', _='baz', opt=True) has been encoded: --opt bar baz
C19_Witness ==
    /\ ByGetArgsFor
    /\ eargs = <<Arg(<<Bar>>, <<Kw(<<"_">>, Baz), Kw(Opt, TrueVal)>>)>>
    /\ espec.argspre = <<>>
    /\ encoded.out = <<LongOpt, Str(Bar), Str(Baz)>>

\* C20: when a with-block of an Env ends, every variable that was set
\* through the Env during the block (by __enter__ or by env[key] = value)
\* has in os.environ the value it had when the block began, and one that was
\* absent then is absent again.
C20_ExitRestoresEnviron ==
    envlast.op = "exit" =>
        \A name \in touched : environ[name] = atEnter[name]


(***************************************************************************)
(* More claims about the launch loop and the completion monitor.           *)
(***************************************************************************)

\* the stage has been spawned
Launched(i) == phase[i] # "none"

\* the monitor has printed the status of the stage and counted it as done
Finalized(i) == \E k \in 1..Len(printed) : printed[k].pid = i

\* the script is in its monitor loop (or has left it through the break)
InMonitor == pc \notin {"launch", "aborted"}

\* the script is finalizing the stage cur
Finalizing == pc \in {"unregister", "close_stdin", "close_stdout", "report"}

\* the descriptors of the pipes the parent holds an end of
PipeFds == {StdoutFd(i) : i \in Stages}

\* C21: a wake of the monitor loop by a timeout, with no events, still polls
\* the processes: a stage that has terminated and is not finalized when the
\* select times out is finalized later.
C21_TimeoutStillPolls ==
    \A i \in Stages :
        (pc = "timeout" /\ phase[i] = "terminated" /\ ~Finalized(i))
            ~> Finalized(i)

C23_UnregisterThenCloses ==
    [][ /\ pc' = "close_stdin" => cur' \notin registered'
        /\ pc' = "close_stdout" =>
               (cur' \notin registered' /\ jobs'[cur'].stdin \notin openfds')
        /\ \A fd \in (openfds \ openfds') \ {SelectorFd} :
               \/ pc = "close_stdin" /\ fd = jobs[cur].stdin
                     /\ cur \notin registered
               \/ pc = "close_stdout" /\ fd = jobs[cur].stdout
                     /\ cur \notin registered
                     /\ jobs[cur].stdin \notin openfds ]_vars

\* the second stage has been finalized with all three steps taking effect
C23_Witness ==
    /\ pc = "report"
    /\ cur = 2
    /\ printed = <<>>
    /\ StdoutFd(1) \notin openfds
    /\ StdoutFd(2) \notin openfds
    /\ 1 \in registered

\* C24: every pipe descriptor open in the parent is the stdout of a spawned
\* stage, the one registered with the selector when the stage was spawned,
\* and none of them is open once the monitor loop has exited.
C24_NoPipeEndLeftOpen ==
    /\ \A fd \in openfds \cap PipeFds :
           \E i \in 1..n : Launched(i) /\ jobs[i].stdout = fd
    /\ pc = "done" => openfds \cap PipeFds = {}

\* the loop of a two-stage pipeline has exited with both pipes closed
C24_Witness ==
    /\ pc = "done"
    /\ n = 2
    /\ StdoutFd(1) \notin openfds
    /\ StdoutFd(2) \notin openfds

\* C25: a stage is spawned by the launch loop when every stage to its left
\* has been spawned, and the script is in its monitor loop only when all
\* the stages of the pipeline have been spawned.
C25_SpawnedLeftToRight ==
    [][ /\ \A i \in Stages :
               (~Launched(i) /\ Launched(i)') =>
                   (pc = "launch" /\ \A j \in 1..(i - 1) : Launched(j))
        /\ InMonitor' => \A i \in 1..n' : Launched(i)' ]_vars

\* the three stages are spawned and the monitor loop begins
C25_Witness ==
    /\ n = 3
    /\ pc = "select"
    /\ cat = "running"
    /\ cnt = 3
    /\ \A i \in 1..3 : phase[i] = "running"

\* C26: of the pipes of the spawned stages, each is the stdout of one stage
\* only and the stdin of the stage to its right only; the first stage alone
\* has the inherited stdin; in the monitor loop N-1 pipes connect two stages
\* and the pipe of the last stage is read by the forwarding process.
C26_PipesOneToOne ==
    /\ \A i \in 1..n : Launched(i) =>
           /\ jobs[i].stdout \in PipeFds
           /\ (i = 1) <=> (jobs[i].stdin = ParentStdin)
           /\ i > 1 => jobs[i].stdin = jobs[i - 1].stdout
           /\ \A j \in 1..n : (Launched(j) /\ jobs[j].stdout = jobs[i].stdout)
                                  => j = i
           /\ \A j \in 1..n : (Launched(j) /\ jobs[j].stdin = jobs[i].stdout)
                                  => j = i + 1
    /\ InMonitor =>
           /\ Cardinality({i \in 1..n :
                  \E j \in 1..n : jobs[j].stdin = jobs[i].stdout}) = n - 1
           /\ stdin = jobs[n].stdout
           /\ cat # "none"

\* a pipeline of three stages is wired and its last pipe goes to the
\* forwarding process
C26_Witness ==
    /\ n = 3
    /\ InMonitor
    /\ jobs[1].stdin = ParentStdin
    /\ jobs[2].stdin = StdoutFd(1)
    /\ jobs[3].stdin = StdoutFd(2)
    /\ stdin = StdoutFd(3)

\* C27: the descriptor of the parent's own standard input is still open
\* after the monitor has finalized the first stage.
C27_ParentStdinStaysOpen == Finalized(1) => ParentStdin \in openfds

\* C28: when the monitor loop has exited, every spawned stage and the
\* forwarding process have terminated, and every stage has been finalized.
C28_ExitOnlyWhenAllTerminated ==
    pc = "done" =>
        /\ cat = "terminated"
        /\ \A i \in 1..n : Launched(i) =>
               (phase[i] = "terminated" /\ Finalized(i))

\* the stages of the monitor loop that are not finalized yet
Remaining == {i \in 1..n : Launched(i) /\ ~Finalized(i)}

\* C29: in the monitor loop cnt is the number of spawned stages that are not
\* finalized, and is not negative; a close of a descriptor that is already
\* closed lets the finalization go on to its next step, and the report
\* counts the stage as done.
C29_CountIsRemainingJobs ==
    [][ /\ InMonitor' => (cnt' = Cardinality(Remaining') /\ cnt' >= 0)
        /\ (pc = "close_stdin" /\ jobs[cur].stdin \notin openfds /\ pc' # pc)
               => (pc' = "close_stdout" /\ openfds' = openfds)
        /\ (pc = "close_stdout" /\ jobs[cur].stdout \notin openfds
              /\ pc' # pc)
               => (pc' = "report" /\ openfds' = openfds)
        /\ (pc = "report" /\ pc' # pc)
               => (cnt' = cnt - 1 /\ Finalized(cur)' /\ pc' = "for") ]_vars

\* the first stage is counted as done although the finalization of the
\* second stage had closed its stdout descriptor before
C29_Witness ==
    /\ Len(printed) = 2
    /\ printed[1].pid = 2
    /\ printed[2].pid = 1
    /\ cnt = 0


(***************************************************************************)
(* More claims about Env.                                                  *)
(***************************************************************************)

\* C30: an Env entered again: when its second or a later with-block ends,
\* every variable set through the Env in that block has in os.environ the
\* value it had when that block was entered, whatever was saved in an
\* earlier block and whatever the program set in between.
C30_ReenteredEnvRestores ==
    (envlast.op = "exit" /\ scopes >= 2) =>
        \A name \in touched : environ[name] = atEnter[name]

====
